---------------------------- MODULE Spec2Model ----------------------------
(***************************************************************************)
(* Model of the computational-geometry toolkit                             *)
(*   src/projects/sudoku/template/geometry_algorithms.cpp                  *)
(*                                                                         *)
(* Coordinates are doubles in the source.  The model draws them from a     *)
(* small integer grid, on which every product, sum and difference the code *)
(* computes is an exactly representable integer, so that                   *)
(*   fabs(c) < 1e-9   is   c = 0,                                          *)
(*   k < sqrt(D)      is   k < 0 \/ k*k < D   (D >= 0),                    *)
(* and a distance is carried as its square.                                *)
(***************************************************************************)
EXTENDS Integers, Sequences, FiniteSets, TLC

VARIABLES
    points,     \* the caller's vector<Point> (main's `points`)
    poly,       \* the caller's polygon / hull (convexPolygonDiameter, isPointInPolygon)
    query,      \* the query point of isPointInPolygon
    seg,        \* <<A, B, C, D>> of segmentsIntersect
    frame,      \* locals of the call in progress; frame.fn = "none" when idle
    ret         \* per function: whether it returned, on which argument, what

vars == <<points, poly, query, seg, frame, ret>>

----------------------------------------------------------------------------
(* Bounds of the model *)

GridMax == 2
MaxPts == 4

----------------------------------------------------------------------------
(* struct Point, cross, distSq *)

Pt(px, py) == [x |-> px, y |-> py]

Grid(k) == {Pt(i, j) : i \in 0..k, j \in 0..k}

cross(O, A, B) == (A.x - O.x) * (B.y - O.y) - (A.y - O.y) * (B.x - O.x)

distSq(A, B) == (A.x - B.x) * (A.x - B.x) + (A.y - B.y) * (A.y - B.y)

Abs(v) == IF v < 0 THEN -v ELSE v

\* fabs(c) < 1e-9 on an integer-valued c
NearZero(c) == c = 0

SamePoint(A, B) == A.x = B.x /\ A.y = B.y

Range(s) == {s[i] : i \in 1..Len(s)}

----------------------------------------------------------------------------
(* std::sort under the four comparators of the file.  The polar and the    *)
(* lexicographic comparator leave only identical points unordered, so the  *)
(* sorted sequence is unique; insertion sort computes it.                  *)

\* PolarLess with `c < 0` for `c > 0`: the sort runs clockwise
PolarLess_Clockwise(pivot, a, b) ==
    LET c == cross(pivot, a, b)
    IN  IF NearZero(c) THEN distSq(pivot, a) < distSq(pivot, b) ELSE c < 0

PolarLess(pivot, a, b) ==
    LET c == cross(pivot, a, b)
    IN  IF NearZero(c) THEN distSq(pivot, a) < distSq(pivot, b) ELSE c > 0

LexLess(a, b) == (a.x < b.x) \/ (a.x = b.x /\ a.y < b.y)

RECURSIVE InsertPolar(_, _, _)
InsertPolar(pivot, e, s) ==
    IF s = <<>> THEN <<e>>
    ELSE IF PolarLess(pivot, e, Head(s)) THEN <<e>> \o s
    ELSE <<Head(s)>> \o InsertPolar(pivot, e, Tail(s))

RECURSIVE SortPolar(_, _)
SortPolar(pivot, s) ==
    IF s = <<>> THEN <<>>
    ELSE InsertPolar(pivot, s[Len(s)], SortPolar(pivot, SubSeq(s, 1, Len(s) - 1)))

RECURSIVE InsertLex(_, _)
InsertLex(e, s) ==
    IF s = <<>> THEN <<e>>
    ELSE IF LexLess(e, Head(s)) THEN <<e>> \o s
    ELSE <<Head(s)>> \o InsertLex(e, Tail(s))

RECURSIVE SortLex(_)
SortLex(s) ==
    IF s = <<>> THEN <<>>
    ELSE InsertLex(s[Len(s)], SortLex(SubSeq(s, 1, Len(s) - 1)))

----------------------------------------------------------------------------
(* convexHullGraham(vector<Point> &pts): the vector is passed by reference *)
(* and is reordered in place; GrahamPts is the vector after the call,      *)
(* GrahamHull the returned hull.  Indices are 1-based here.                *)

RECURSIVE LowestFrom(_, _, _)
LowestFrom(pts, i, lowest) ==
    IF i > Len(pts) THEN lowest
    ELSE LowestFrom(pts, i + 1,
            IF pts[i].y < pts[lowest].y
               \/ (pts[i].y = pts[lowest].y /\ pts[i].x < pts[lowest].x)
            THEN i ELSE lowest)

Swap(s, i, j) == [s EXCEPT ![i] = s[j], ![j] = s[i]]

GrahamPts(pts) ==
    IF Len(pts) < 3 THEN pts
    ELSE LET swapped == Swap(pts, 1, LowestFrom(pts, 2, 1))
         IN  <<swapped[1]>> \o SortPolar(swapped[1], Tail(swapped))

\* the loop of lines 54-59 from index i on
RECURSIVE GrahamFilter(_, _, _)
GrahamFilter(pts, i, filtered) ==
    IF i > Len(pts) THEN filtered
    ELSE IF i < Len(pts) /\ NearZero(cross(pts[1], pts[i], pts[i + 1]))
         THEN GrahamFilter(pts, i + 1, filtered)
         ELSE GrahamFilter(pts, i + 1, Append(filtered, pts[i]))

\* PopNonLeft with `< 0` for `<= 0`: collinear points stay on the stack
RECURSIVE PopNonLeft_Strict(_, _)
PopNonLeft_Strict(hull, p) ==
    IF Len(hull) >= 2 /\ cross(hull[Len(hull) - 1], hull[Len(hull)], p) < 0
    THEN PopNonLeft_Strict(SubSeq(hull, 1, Len(hull) - 1), p)
    ELSE hull

\* the while loop of lines 63-66
RECURSIVE PopNonLeft(_, _)
PopNonLeft(hull, p) ==
    IF Len(hull) >= 2 /\ cross(hull[Len(hull) - 1], hull[Len(hull)], p) <= 0
    THEN PopNonLeft(SubSeq(hull, 1, Len(hull) - 1), p)
    ELSE hull

RECURSIVE GrahamScan(_, _, _)
GrahamScan(filtered, k, hull) ==
    IF k > Len(filtered) THEN hull
    ELSE GrahamScan(filtered, k + 1, Append(PopNonLeft(hull, filtered[k]), filtered[k]))

GrahamHull(pts) ==
    IF Len(pts) < 3 THEN pts
    ELSE LET sorted == GrahamPts(pts)
         IN  GrahamScan(GrahamFilter(sorted, 2, <<sorted[1]>>), 1, <<>>)

----------------------------------------------------------------------------
(* The caller *)

Idle == [fn |-> "none"]

NotCalled == [called |-> FALSE, arg |-> <<>>, val |-> <<>>]

Returned(a, v) == [called |-> TRUE, arg |-> a, val |-> v]

Ops == {"graham", "jarvis", "chan", "closest", "diameter", "delaunay", "segments", "pip"}

CallGraham ==
    /\ frame = Idle
    /\ ~ret["graham"].called
    /\ ret' = [ret EXCEPT !["graham"] = Returned(points, GrahamHull(points))]
    /\ points' = GrahamPts(points)
    /\ UNCHANGED <<poly, query, seg, frame>>

----------------------------------------------------------------------------
(* convexHullJarvis(vector<Point> &pts), one action per iteration of the   *)
(* do-while loop of lines 87-99.  `trail` is the history of the values of  *)
(* p at the push_back of line 88 (hull[k] = pts[trail[k]]).                *)

RECURSIVE LeftmostFrom(_, _, _)
LeftmostFrom(pts, i, leftmost) ==
    IF i > Len(pts) THEN leftmost
    ELSE LeftmostFrom(pts, i + 1, IF pts[i].x < pts[leftmost].x THEN i ELSE leftmost)

\* the for loop of lines 90-97 from index i on
RECURSIVE JarvisNext(_, _, _, _)
JarvisNext(pts, p, q, i) ==
    IF i > Len(pts) THEN q
    ELSE LET c == cross(pts[p], pts[q], pts[i])
         IN  JarvisNext(pts, p,
                IF c < 0 \/ (NearZero(c) /\ distSq(pts[p], pts[i]) > distSq(pts[p], pts[q]))
                THEN i ELSE q,
                i + 1)

\* q = (p+1) % n with 1-based indices
JarvisFirstQ(pts, p) == (p % Len(pts)) + 1

JarvisStart ==
    /\ frame = Idle
    /\ ~ret["jarvis"].called
    /\ IF Len(points) < 3
       THEN /\ ret' = [ret EXCEPT !["jarvis"] = Returned(points, points)]
            /\ UNCHANGED frame
       ELSE /\ frame' = [fn |-> "jarvis",
                         leftmost |-> LeftmostFrom(points, 2, 1),
                         p |-> LeftmostFrom(points, 2, 1),
                         hull |-> <<>>,
                         trail |-> <<>>]
            /\ UNCHANGED ret
    /\ UNCHANGED <<points, poly, query, seg>>

\* A march that does not come back to `leftmost` appends for ever; the model
\* follows it for Len(points) + 1 appends, by when some index has been
\* appended twice.
JarvisStep ==
    /\ frame.fn = "jarvis"
    /\ Len(frame.hull) <= Len(points)
    /\ LET hull == Append(frame.hull, points[frame.p])
           q == JarvisNext(points, frame.p, JarvisFirstQ(points, frame.p), 1)
       IN  IF q # frame.leftmost
           THEN /\ frame' = [frame EXCEPT !.hull = hull,
                                          !.trail = Append(frame.trail, frame.p),
                                          !.p = q]
                /\ UNCHANGED ret
           ELSE /\ frame' = Idle
                /\ ret' = [ret EXCEPT !["jarvis"] = Returned(points, hull)]
    /\ UNCHANGED <<points, poly, query, seg>>

----------------------------------------------------------------------------
(* convexHullChan(vector<Point> pts), by value.  frame.pc is the position  *)
(* in the while (true) loop of lines 118-165:                              *)
(*   "partition"  lines 119-140, "march" one iteration of the do-while of  *)
(*   lines 141-163, "check" line 164.                                      *)

\* numeric_limits<double>::infinity(), a value outside every grid
Infinity == 1000000

InfPoint == Pt(Infinity, Infinity)

RECURSIVE InitialM(_, _)
InitialM(n, m) == IF m * m < n THEN InitialM(n, 2 * m) ELSE m

Min(a, b) == IF a < b THEN a ELSE b
Max(a, b) == IF a > b THEN a ELSE b

ChanNumGroups(n, m) == (n + m - 1) \div m

\* hulls[i] of lines 122-127, i from 0
ChanGroupHull(pts, m, i) ==
    GrahamHull(SubSeq(pts, i * m + 1, Min(i * m + m, Len(pts))))

\* every hulls[i][k] in the order the loops of lines 132-137 and 145-155 visit them
RECURSIVE ChanCandidates(_, _, _)
ChanCandidates(pts, m, i) ==
    IF i >= ChanNumGroups(Len(pts), m) THEN <<>>
    ELSE ChanGroupHull(pts, m, i) \o ChanCandidates(pts, m, i + 1)

RECURSIVE ChanStartP(_, _, _)
ChanStartP(cands, k, startP) ==
    IF k > Len(cands) THEN startP
    ELSE ChanStartP(cands, k + 1,
            IF cands[k].y < startP.y \/ (cands[k].y = startP.y /\ cands[k].x < startP.x)
            THEN cands[k] ELSE startP)

\* the condition of lines 149-151.  With nextPoint at infinity the first
\* disjunct holds; with pointOnHull at infinity and nextPoint finite, c is
\* inf - inf = NaN and distSq(pointOnHull, .) is inf on both sides, so no
\* disjunct holds.
ChanTakes(pointOnHull, nextPoint, candidate) ==
    IF nextPoint.x = Infinity THEN TRUE
    ELSE IF pointOnHull.x = Infinity THEN FALSE
    ELSE LET c == cross(pointOnHull, nextPoint, candidate)
         IN  c < 0 \/ (NearZero(c) /\ distSq(pointOnHull, candidate)
                                        > distSq(pointOnHull, nextPoint))

RECURSIVE ChanNext(_, _, _, _)
ChanNext(cands, pointOnHull, nextPoint, k) ==
    IF k > Len(cands) THEN nextPoint
    ELSE ChanNext(cands, pointOnHull,
            IF ~SamePoint(cands[k], pointOnHull) /\ ChanTakes(pointOnHull, nextPoint, cands[k])
            THEN cands[k] ELSE nextPoint,
            k + 1)

ChanStart ==
    /\ frame = Idle
    /\ ~ret["chan"].called
    /\ IF Len(points) < 3
       THEN /\ ret' = [ret EXCEPT !["chan"] = Returned(points, points)]
            /\ UNCHANGED frame
       ELSE /\ frame' = [fn |-> "chan", pc |-> "partition",
                         pts |-> SortLex(points),
                         m |-> InitialM(Len(points), 1),
                         cands |-> <<>>,
                         startP |-> Pt(0, 0),
                         pointOnHull |-> Pt(0, 0),
                         hullPoints |-> 0,
                         hull |-> <<>>,
                         rounds |-> 0,
                         cutOff |-> FALSE]
            /\ UNCHANGED ret
    /\ UNCHANGED <<points, poly, query, seg>>

ChanPartition ==
    /\ frame.fn = "chan" /\ frame.pc = "partition"
    /\ LET cands == ChanCandidates(frame.pts, frame.m, 0)
           startP == ChanStartP(cands, 1, frame.pts[1])
       IN  frame' = [frame EXCEPT !.pc = "march",
                                  !.cands = cands,
                                  !.startP = startP,
                                  !.pointOnHull = startP,
                                  !.hullPoints = 0,
                                  !.hull = <<>>,
                                  !.rounds = @ + 1,
                                  !.cutOff = FALSE]
    /\ UNCHANGED <<points, poly, query, seg, ret>>

\* `cutOff` records that the do-while was left by the break of line 161
ChanMarch ==
    /\ frame.fn = "chan" /\ frame.pc = "march"
    /\ LET nextPoint == ChanNext(frame.cands, frame.pointOnHull, InfPoint, 1)
           hullPoints == frame.hullPoints + 1
       IN  frame' = [frame EXCEPT
                !.hull = Append(@, frame.pointOnHull),
                !.pointOnHull = nextPoint,
                !.hullPoints = hullPoints,
                !.m = IF hullPoints > @ THEN 2 * @ ELSE @,
                !.cutOff = hullPoints > frame.m,
                !.pc = IF hullPoints > frame.m \/ SamePoint(nextPoint, frame.startP)
                       THEN "check" ELSE "march"]
    /\ UNCHANGED <<points, poly, query, seg, ret>>

ChanCheck ==
    /\ frame.fn = "chan" /\ frame.pc = "check"
    /\ IF frame.hullPoints <= frame.m
       THEN /\ ret' = [ret EXCEPT !["chan"] = Returned(points, frame.hull)]
            /\ frame' = Idle
       ELSE /\ frame' = [frame EXCEPT !.pc = "partition"]
            /\ UNCHANGED ret
    /\ UNCHANGED <<points, poly, query, seg>>

----------------------------------------------------------------------------
(* main's vector with the three hull functions called on it, each once, in *)
(* any order.                                                              *)

MainPoints == <<Pt(0,0), Pt(1,1), Pt(2,2), Pt(2,0), Pt(2,4), Pt(3,3), Pt(0,5), Pt(4,0)>>

InitHull ==
    /\ \/ \E n \in 0..MaxPts : points \in [1..n -> Grid(GridMax)]
       \/ points = MainPoints
    /\ poly = <<>>
    /\ query = Pt(0, 0)
    /\ seg = <<>>
    /\ frame = Idle
    /\ ret = [o \in Ops |-> NotCalled]

NextHull ==
    \/ CallGraham
    \/ JarvisStart
    \/ JarvisStep
    \/ ChanStart
    \/ ChanPartition
    \/ ChanMarch
    \/ ChanCheck

SpecHull == InitHull /\ [][NextHull]_vars

SpecGraham == InitHull /\ [][CallGraham]_vars

----------------------------------------------------------------------------
(* closestPair / closestPairRec.  A distance is carried as its square      *)
(* (sqrt is strictly increasing), infinity as Infinity.  std::sort leaves  *)
(* the order of elements that compare equal unspecified: SortedByX and     *)
(* SortedByY are the sets of all outcomes it may produce, and the          *)
(* functions built on them yield the set of all outcomes of the call.      *)

\* every way to put e into the ascending sequence t that keeps it ascending
InsertionsByX(e, t) ==
    {SubSeq(t, 1, k) \o <<e>> \o SubSeq(t, k + 1, Len(t)) : k \in
        {k \in 0..Len(t) : /\ (k = 0 \/ ~(e.x < t[k].x))
                           /\ (k = Len(t) \/ ~(t[k + 1].x < e.x))}}

RECURSIVE SortedByX(_)
SortedByX(s) ==
    IF s = <<>> THEN {<<>>}
    ELSE UNION {InsertionsByX(s[Len(s)], t) : t \in SortedByX(SubSeq(s, 1, Len(s) - 1))}

InsertionsByY(e, t) ==
    {SubSeq(t, 1, k) \o <<e>> \o SubSeq(t, k + 1, Len(t)) : k \in
        {k \in 0..Len(t) : /\ (k = 0 \/ ~(e.y < t[k].y))
                           /\ (k = Len(t) \/ ~(t[k + 1].y < e.y))}}

RECURSIVE SortedByY(_)
SortedByY(s) ==
    IF s = <<>> THEN {<<>>}
    ELSE UNION {InsertionsByY(s[Len(s)], t) : t \in SortedByY(SubSeq(s, 1, Len(s) - 1))}

\* std::inplace_merge under a.y < b.y: stable, the first range wins ties
RECURSIVE MergeByY(_, _)
MergeByY(a, b) ==
    IF a = <<>> THEN b
    ELSE IF b = <<>> THEN a
    ELSE IF Head(b).y < Head(a).y THEN <<Head(b)>> \o MergeByY(a, Tail(b))
    ELSE <<Head(a)>> \o MergeByY(Tail(a), b)

\* k < d for the double d whose square is dSq (d >= 0)
LessThanDist(k, dSq) == k < 0 \/ k * k < dSq

\* lines 335-340 on the range s
BruteMinSq(s) ==
    LET pairs == {<<i, j>> \in (1..Len(s)) \X (1..Len(s)) : i < j}
        all == {distSq(s[pr[1]], s[pr[2]]) : pr \in pairs}
    IN  IF all = {} THEN Infinity
        ELSE CHOOSE d \in all : \A e \in all : d <= e

\* lines 353-356
RECURSIVE Strip(_, _, _)
Strip(s, midX, dSq) ==
    IF s = <<>> THEN <<>>
    ELSE IF LessThanDist(Abs(Head(s).x - midX), dSq)
         THEN <<Head(s)>> \o Strip(Tail(s), midX, dSq)
         ELSE Strip(Tail(s), midX, dSq)

\* the inner loop of lines 360-362 for one i, from j on
RECURSIVE StripInner(_, _, _, _, _)
StripInner(strip, i, j, dSq, minSq) ==
    IF j <= Len(strip) /\ LessThanDist(strip[j].y - strip[i].y, dSq)
    THEN StripInner(strip, i, j + 1, dSq, Min(minSq, distSq(strip[i], strip[j])))
    ELSE minSq

RECURSIVE StripScan(_, _, _, _)
StripScan(strip, i, dSq, minSq) ==
    IF i > Len(strip) THEN minSq
    ELSE StripScan(strip, i + 1, dSq, StripInner(strip, i, i + 1, dSq, minSq))

\* ClosestCombine without the scan of the strip
ClosestCombine_NoStrip(midX, lo, hi) ==
    [pts |-> MergeByY(lo.pts, hi.pts), d |-> Min(lo.d, hi.d)]

\* lines 346-364 once both recursive calls have returned lo and hi
ClosestCombine(midX, lo, hi) ==
    LET dSq == Min(lo.d, hi.d)
        merged == MergeByY(lo.pts, hi.pts)
    IN  [pts |-> merged, d |-> StripScan(Strip(merged, midX, dSq), 1, dSq, dSq)]

\* closestPairRec on the range s = pts[left..right]: the set of
\* [pts |-> the range afterwards, d |-> the square of the value returned]
RECURSIVE closestPairRec(_)
closestPairRec(s) ==
    IF Len(s) - 1 <= 3
    THEN {[pts |-> t, d |-> BruteMinSq(s)] : t \in SortedByY(s)}
    ELSE LET h == ((Len(s) - 1) \div 2) + 1
             midX == s[h].x
         IN  {ClosestCombine(midX, lo, hi) :
                 lo \in closestPairRec(SubSeq(s, 1, h)),
                 hi \in closestPairRec(SubSeq(s, h + 1, Len(s)))}

\* the squares of the values closestPair(pts) may return
closestPair(pts) == {o.d : o \in UNION {closestPairRec(t) : t \in SortedByX(pts)}}

CpMaxPts == 5

CallClosestPair ==
    /\ frame = Idle
    /\ ~ret["closest"].called
    /\ \E d \in closestPair(points) :
          ret' = [ret EXCEPT !["closest"] = Returned(points, d)]
    /\ UNCHANGED <<points, poly, query, seg, frame>>

InitClosest ==
    /\ \E n \in 0..CpMaxPts : points \in [1..n -> Grid(GridMax)]
    /\ poly = <<>>
    /\ query = Pt(0, 0)
    /\ seg = <<>>
    /\ frame = Idle
    /\ ret = [o \in Ops |-> NotCalled]

SpecClosest == InitClosest /\ [][CallClosestPair]_vars

\* C4: on at least 2 points, every value closestPair can return is the
\* least distance between two points at distinct positions of the input
\* (compared as squares).
C4_ClosestPairIsBruteForce ==
    (ret["closest"].called /\ Len(ret["closest"].arg) >= 2)
        => LET P == ret["closest"].arg
           IN  /\ \E i, j \in 1..Len(P) : i # j /\ distSq(P[i], P[j]) = ret["closest"].val
               /\ \A i, j \in 1..Len(P) : i # j => ret["closest"].val <= distSq(P[i], P[j])

\* the recursion ran (5 points) and the least distance is between a point of
\* the left half and a point of the right half only
C4_Witness ==
    /\ ret["closest"].called
    /\ Len(ret["closest"].arg) = 5
    /\ ret["closest"].val = 1
    /\ \E t \in SortedByX(ret["closest"].arg) :
          /\ BruteMinSq(SubSeq(t, 1, 3)) > 1
          /\ BruteMinSq(SubSeq(t, 4, 5)) > 1

----------------------------------------------------------------------------
(* convexPolygonDiameter(const vector<Point> &hull).  The source indexes   *)
(* from 0; At(h, i) is hull[i].  The value returned is carried as its      *)
(* square.                                                                 *)

At(h, i) == h[i + 1]

\* DiameterAdvance with `<` for `>`: j moves on while the width shrinks
RECURSIVE DiameterAdvance_Reversed(_, _, _, _)
DiameterAdvance_Reversed(h, i, j, steps) ==
    LET n == Len(h)
        ni == (i + 1) % n
    IN  IF Abs(cross(At(h, i), At(h, ni), At(h, (j + 1) % n)))
              < Abs(cross(At(h, i), At(h, ni), At(h, j)))
        THEN IF steps >= n THEN -1
             ELSE DiameterAdvance_Reversed(h, i, (j + 1) % n, steps + 1)
        ELSE j

\* The while loop of lines 182-185.  Each iteration strictly increases
\* |cross(hull[i], hull[ni], hull[j])|, so j cannot come back to a value it
\* had: `steps` counts the iterations and -1 reports a loop that would take
\* more than Len(h) of them.
RECURSIVE DiameterAdvance(_, _, _, _)
DiameterAdvance(h, i, j, steps) ==
    LET n == Len(h)
        ni == (i + 1) % n
    IN  IF Abs(cross(At(h, i), At(h, ni), At(h, (j + 1) % n)))
              > Abs(cross(At(h, i), At(h, ni), At(h, j)))
        THEN IF steps >= n THEN -1
             ELSE DiameterAdvance(h, i, (j + 1) % n, steps + 1)
        ELSE j

\* the for loop of lines 179-188 from i on; -1 when the while loop diverges
RECURSIVE DiameterLoop(_, _, _, _)
DiameterLoop(h, i, j, maxDistSq) ==
    IF i >= Len(h) THEN maxDistSq
    ELSE LET ni == (i + 1) % Len(h)
             j2 == DiameterAdvance(h, i, j, 0)
         IN  IF j2 = -1 THEN -1
             ELSE DiameterLoop(h, i + 1, j2,
                    Max(Max(maxDistSq, distSq(At(h, i), At(h, j2))),
                        distSq(At(h, ni), At(h, j2))))

convexPolygonDiameter(hull) ==
    IF Len(hull) < 2 THEN 0 ELSE DiameterLoop(hull, 0, 1, 0)

\* A Hull of the specification: every vertex other than the two ends of an
\* edge is strictly to the left of that edge (two distinct points, one
\* point and no point are the degenerate hulls).
IsHull(h) ==
    /\ \A i, k \in 1..Len(h) : i # k => h[i] # h[k]
    /\ Len(h) >= 3 =>
          \A i, k \in 1..Len(h) :
              (k # i /\ k # (i % Len(h)) + 1) => cross(h[i], h[(i % Len(h)) + 1], h[k]) > 0

HullGridMax == 3

MaxHull == 6

\* the caller builds a hull vertex by vertex; every prefix of a hull is a hull
HullPush ==
    /\ frame = Idle
    /\ ~ret["diameter"].called
    /\ Len(poly) < MaxHull
    /\ \E p \in Grid(HullGridMax) :
          /\ IsHull(Append(poly, p))
          /\ poly' = Append(poly, p)
    /\ UNCHANGED <<points, query, seg, frame, ret>>

CallDiameter ==
    /\ frame = Idle
    /\ ~ret["diameter"].called
    /\ ret' = [ret EXCEPT !["diameter"] = Returned(poly, convexPolygonDiameter(poly))]
    /\ UNCHANGED <<points, poly, query, seg, frame>>

InitDiameter ==
    /\ points = <<>>
    /\ poly = <<>>
    /\ query = Pt(0, 0)
    /\ seg = <<>>
    /\ frame = Idle
    /\ ret = [o \in Ops |-> NotCalled]

NextDiameter ==
    \/ HullPush
    \/ CallDiameter

SpecDiameter == InitDiameter /\ [][NextDiameter]_vars

\* C5: on a hull of at least 2 vertices convexPolygonDiameter terminates and
\* returns the greatest distance between two of its vertices (compared as
\* squares).
C5_DiameterIsBruteForce ==
    (ret["diameter"].called /\ Len(ret["diameter"].arg) >= 2)
        => LET H == ret["diameter"].arg
           IN  /\ \E i, k \in 1..Len(H) : distSq(H[i], H[k]) = ret["diameter"].val
               /\ \A i, k \in 1..Len(H) : distSq(H[i], H[k]) <= ret["diameter"].val

\* a hexagon's diameter was computed
C5_Witness ==
    /\ ret["diameter"].called
    /\ Len(ret["diameter"].arg) = 6
    /\ ret["diameter"].val = 13

----------------------------------------------------------------------------
(* What a hull is, stated without the algorithms *)

CycSucc(h, i) == (i % Len(h)) + 1

\* every three cyclically consecutive vertices make a strict left turn
StrictLeftTurns(h) ==
    \A i \in 1..Len(h) : cross(h[i], h[CycSucc(h, i)], h[CycSucc(h, CycSucc(h, i))]) > 0

\* every point of P is on or to the left of every edge of h
ContainsAll(h, P) ==
    \A i \in 1..Len(h) : \A k \in 1..Len(P) : cross(h[i], h[CycSucc(h, i)], P[k]) >= 0

IsHullOf(h, P) ==
    /\ Range(h) \subseteq Range(P)
    /\ StrictLeftTurns(h)
    /\ ContainsAll(h, P)

AllCollinear(P) ==
    \A i, j, k \in 1..Len(P) : cross(P[i], P[j], P[k]) = 0

----------------------------------------------------------------------------
(* delaunayTriangulation(vector<Point> pts), one action per iteration of   *)
(* the loop of lines 231-271.  mid of line 222 has half-integer            *)
(* coordinates on an integer grid, so the model carries every coordinate   *)
(* of this function times 2 (Twice): the sign of the determinant of        *)
(* inCircumcircle and every comparison of the function are unchanged by    *)
(* the scaling.                                                            *)

Twice(p) == Pt(2 * p.x, 2 * p.y)

TwiceAll(pts) == [i \in 1..Len(pts) |-> Twice(pts[i])]

Tri(pa, pb, pc) == [a |-> pa, b |-> pb, c |-> pc]

inCircumcircle(t, p) ==
    LET ax == t.a.x - p.x   ay == t.a.y - p.y
        bx == t.b.x - p.x   by == t.b.y - p.y
        cx == t.c.x - p.x   cy == t.c.y - p.y
        det == (ax * ax + ay * ay) * (bx * cy - cx * by)
             - (bx * bx + by * by) * (ax * cy - cx * ay)
             + (cx * cx + cy * cy) * (ax * by - bx * ay)
    IN  det > 0

SetMin(S) == CHOOSE v \in S : \A w \in S : v <= w
SetMax(S) == CHOOSE v \in S : \A w \in S : v >= w

\* lines 213-219, on the scaled points
BoundingBox(pts) ==
    [minX |-> SetMin({pts[i].x : i \in 1..Len(pts)}),
     minY |-> SetMin({pts[i].y : i \in 1..Len(pts)}),
     maxX |-> SetMax({pts[i].x : i \in 1..Len(pts)}),
     maxY |-> SetMax({pts[i].y : i \in 1..Len(pts)})]

\* lines 220-228, on the scaled points: (minX + maxX) / 2 is exact
SuperTriangle(pts) ==
    LET bb == BoundingBox(pts)
        dmax == Max(bb.maxX - bb.minX, bb.maxY - bb.minY)
        midx == (bb.minX + bb.maxX) \div 2
        midy == (bb.minY + bb.maxY) \div 2
    IN  Tri(Pt(midx - 2 * dmax, midy - dmax),
            Pt(midx, midy + 2 * dmax),
            Pt(midx + 2 * dmax, midy - dmax))

\* lines 235-244: the edges of the triangles whose circumcircle holds p ...
RECURSIVE CavityEdges(_, _)
CavityEdges(tris, p) ==
    IF tris = <<>> THEN <<>>
    ELSE LET t == Head(tris)
         IN  (IF inCircumcircle(t, p)
              THEN << <<t.a, t.b>>, <<t.b, t.c>>, <<t.c, t.a>> >>
              ELSE <<>>) \o CavityEdges(Tail(tris), p)

\* ... and the other triangles
RECURSIVE KeptTriangles(_, _)
KeptTriangles(tris, p) ==
    IF tris = <<>> THEN <<>>
    ELSE (IF inCircumcircle(Head(tris), p) THEN <<>> ELSE <<Head(tris)>>)
         \o KeptTriangles(Tail(tris), p)

\* lines 246-263: an edge goes when some other edge is its reverse
removeDuplicateEdges(edges) ==
    LET toRemove(i) ==
            \E j \in 1..Len(edges) :
                /\ j # i
                /\ SamePoint(edges[i][1], edges[j][2])
                /\ SamePoint(edges[i][2], edges[j][1])
    IN  SelectSeq([i \in 1..Len(edges) |-> [e |-> edges[i], rm |-> toRemove(i)]],
                  LAMBDA r : ~r.rm)

\* lines 266-269
FanTriangles(marked, p) == [i \in 1..Len(marked) |-> Tri(marked[i].e[1], marked[i].e[2], p)]

\* one iteration of the loop of lines 231-271
InsertPoint(tris, p) ==
    KeptTriangles(tris, p) \o FanTriangles(removeDuplicateEdges(CavityEdges(tris, p)), p)

\* the predicate of lines 274-278
OutsideBox(bb, q) == q.x < bb.minX \/ q.x > bb.maxX \/ q.y < bb.minY \/ q.y > bb.maxY

TouchesOutside(bb, t) == OutsideBox(bb, t.a) \/ OutsideBox(bb, t.b) \/ OutsideBox(bb, t.c)

\* RemoveOutside that removes nothing
RemoveOutside_Nothing(tris, bb) == tris

\* lines 273-280
RemoveOutside(tris, bb) == SelectSeq(tris, LAMBDA t : ~TouchesOutside(bb, t))

DelaunayStart ==
    /\ frame = Idle
    /\ ~ret["delaunay"].called
    /\ IF Len(points) < 3
       THEN /\ ret' = [ret EXCEPT !["delaunay"] = Returned(points, <<>>)]
            /\ UNCHANGED frame
       ELSE /\ frame' = [fn |-> "delaunay",
                         pts |-> TwiceAll(points),
                         next |-> 1,
                         triangulation |-> <<SuperTriangle(TwiceAll(points))>>]
            /\ UNCHANGED ret
    /\ UNCHANGED <<points, poly, query, seg>>

DelaunayInsert ==
    /\ frame.fn = "delaunay"
    /\ frame.next <= Len(frame.pts)
    /\ frame' = [frame EXCEPT
            !.triangulation = InsertPoint(@, frame.pts[frame.next]),
            !.next = @ + 1]
    /\ UNCHANGED <<points, poly, query, seg, ret>>

DelaunayReturn ==
    /\ frame.fn = "delaunay"
    /\ frame.next > Len(frame.pts)
    /\ ret' = [ret EXCEPT !["delaunay"] =
                  Returned(points, RemoveOutside(frame.triangulation, BoundingBox(frame.pts)))]
    /\ frame' = Idle
    /\ UNCHANGED <<points, poly, query, seg>>

InitDelaunay ==
    /\ \/ \E n \in 0..MaxPts : points \in [1..n -> Grid(GridMax)]
       \/ points = MainPoints
    /\ poly = <<>>
    /\ query = Pt(0, 0)
    /\ seg = <<>>
    /\ frame = Idle
    /\ ret = [o \in Ops |-> NotCalled]

NextDelaunay ==
    \/ DelaunayStart
    \/ DelaunayInsert
    \/ DelaunayReturn

SpecDelaunay == InitDelaunay /\ [][NextDelaunay]_vars

\* p strictly inside the circle through the three vertices of t, decided
\* from the circle's centre (ux / d, uy / d) and not from the determinant
\* of inCircumcircle; three vertices on a line have no such circle.
StrictlyInsideCircle(t, p) ==
    LET d == 2 * cross(t.a, t.b, t.c)
        a2 == t.a.x * t.a.x + t.a.y * t.a.y
        b2 == t.b.x * t.b.x + t.b.y * t.b.y
        c2 == t.c.x * t.c.x + t.c.y * t.c.y
        ux == a2 * (t.b.y - t.c.y) + b2 * (t.c.y - t.a.y) + c2 * (t.a.y - t.b.y)
        uy == a2 * (t.c.x - t.b.x) + b2 * (t.a.x - t.c.x) + c2 * (t.b.x - t.a.x)
        sq(v) == v * v
    IN  /\ d # 0
        /\ sq(d * p.x - ux) + sq(d * p.y - uy) < sq(d * t.a.x - ux) + sq(d * t.a.y - uy)

TriVertices(t) == {t.a, t.b, t.c}

\* C6 as stated: on at least 3 points not all on a line delaunayTriangulation
\* returns at least one triangle and every input point is a vertex of one.
C6_TriangulationCoversInput ==
    (ret["delaunay"].called /\ Len(ret["delaunay"].arg) >= 3
        /\ ~AllCollinear(ret["delaunay"].arg))
        => LET T == ret["delaunay"].val
               P == TwiceAll(ret["delaunay"].arg)
           IN  /\ Len(T) >= 1
               /\ \A i \in 1..Len(P) : \E k \in 1..Len(T) : P[i] \in TriVertices(T[k])

----------------------------------------------------------------------------
(* segmentsIntersect(A, B, C, D) *)

\* q.x <= max(p.x, r.x) + 1e-9 on integers is q.x <= max(p.x, r.x)
onSegment(p, q, r) ==
    /\ q.x <= Max(p.x, r.x) /\ q.x >= Min(p.x, r.x)
    /\ q.y <= Max(p.y, r.y) /\ q.y >= Min(p.y, r.y)

orientation(p, q, r) ==
    LET val == (q.y - p.y) * (r.x - q.x) - (q.x - p.x) * (r.y - q.y)
    IN  IF NearZero(val) THEN 0 ELSE IF val > 0 THEN 1 ELSE 2

\* segmentsIntersect with the general case only
segmentsIntersect_GeneralOnly(A, B, C, D) ==
    orientation(A, B, C) # orientation(A, B, D) /\ orientation(C, D, A) # orientation(C, D, B)

segmentsIntersect(A, B, C, D) ==
    LET o1 == orientation(A, B, C)
        o2 == orientation(A, B, D)
        o3 == orientation(C, D, A)
        o4 == orientation(C, D, B)
    IN  IF o1 # o2 /\ o3 # o4 THEN TRUE
        ELSE IF o1 = 0 /\ onSegment(A, C, B) THEN TRUE
        ELSE IF o2 = 0 /\ onSegment(A, D, B) THEN TRUE
        ELSE IF o3 = 0 /\ onSegment(C, A, D) THEN TRUE
        ELSE IF o4 = 0 /\ onSegment(C, B, D) THEN TRUE
        ELSE FALSE

CallSegments ==
    /\ frame = Idle
    /\ ~ret["segments"].called
    /\ ret' = [ret EXCEPT !["segments"] =
                  Returned(seg, segmentsIntersect(seg[1], seg[2], seg[3], seg[4]))]
    /\ UNCHANGED <<points, poly, query, seg, frame>>

InitSegments ==
    /\ points = <<>>
    /\ poly = <<>>
    /\ query = Pt(0, 0)
    /\ seg \in [1..4 -> Grid(GridMax)]
    /\ frame = Idle
    /\ ret = [o \in Ops |-> NotCalled]

SpecSegments == InitSegments /\ [][CallSegments]_vars

\* R = P + t (Q - P) for some 0 <= t <= 1
OnClosedSegment(P, Q, R) ==
    LET dot == (R.x - P.x) * (Q.x - P.x) + (R.y - P.y) * (Q.y - P.y)
    IN  IF P = Q THEN R = P
        ELSE cross(P, Q, R) = 0 /\ 0 <= dot /\ dot <= distSq(P, Q)

\* The closed segments AB and CD have a point in common.  On lines that are
\* not parallel it is A + t (B - A) = C + u (D - C) with t = tn / den and
\* u = un / den; parallel segments that meet share an end point.
SegmentsMeet(A, B, C, D) ==
    LET den == (B.x - A.x) * (D.y - C.y) - (B.y - A.y) * (D.x - C.x)
        tn == (C.x - A.x) * (D.y - C.y) - (C.y - A.y) * (D.x - C.x)
        un == (C.x - A.x) * (B.y - A.y) - (C.y - A.y) * (B.x - A.x)
        between01(num) == IF den > 0 THEN 0 <= num /\ num <= den
                                     ELSE den <= num /\ num <= 0
    IN  IF den # 0 THEN between01(tn) /\ between01(un)
        ELSE \/ OnClosedSegment(A, B, C) \/ OnClosedSegment(A, B, D)
             \/ OnClosedSegment(C, D, A) \/ OnClosedSegment(C, D, B)

\* C8: segmentsIntersect returns true exactly when the closed segments have
\* a point in common, and returns true for (0,0),(2,2),(0,2),(2,0).
C8_SegmentsIntersectIffMeet ==
    /\ ret["segments"].called
          => LET a == ret["segments"].arg
             IN  ret["segments"].val = SegmentsMeet(a[1], a[2], a[3], a[4])
    /\ (ret["segments"].called
          /\ ret["segments"].arg = <<Pt(0,0), Pt(2,2), Pt(0,2), Pt(2,0)>>)
          => ret["segments"].val = TRUE

\* a segment touching the other with an end point only, found to intersect
C8_Witness ==
    /\ ret["segments"].called
    /\ ret["segments"].arg = <<Pt(0,0), Pt(2,0), Pt(1,0), Pt(1,2)>>
    /\ ret["segments"].val = TRUE

----------------------------------------------------------------------------
(* isPointInPolygon(polygon, p) *)

\* PipIntersect with `>=` for the first `>`
PipIntersect_Inclusive(pi, pj, p) ==
    /\ (pi.y >= p.y) # (pj.y > p.y)
    /\ LET num == (pj.x - pi.x) * (p.y - pi.y)
           den == pj.y - pi.y
       IN  IF den > 0 THEN (p.x - pi.x) * den < num
                      ELSE (p.x - pi.x) * den > num

\* `intersect` of lines 322-323.  The quotient is a double; on the model's
\* grid the comparison with p.x has the outcome of the exact comparison
\* (p.x - pi.x) < num / den, decided here by cross-multiplying.
PipIntersect(pi, pj, p) ==
    /\ (pi.y > p.y) # (pj.y > p.y)
    /\ LET num == (pj.x - pi.x) * (p.y - pi.y)
           den == pj.y - pi.y
       IN  IF den > 0 THEN (p.x - pi.x) * den < num
                      ELSE (p.x - pi.x) * den > num

\* the loop of lines 319-325 from i on (1-based; j is the index before i)
RECURSIVE PipLoop(_, _, _, _, _)
PipLoop(polygon, p, i, j, inside) ==
    IF i > Len(polygon) THEN inside
    ELSE PipLoop(polygon, p, i + 1, i,
            IF PipIntersect(polygon[i], polygon[j], p) THEN ~inside ELSE inside)

isPointInPolygon(polygon, p) == PipLoop(polygon, p, 1, Len(polygon), FALSE)

PolyGridMax == 2

MaxPoly == 5

\* polygon vertices have even coordinates, query points any coordinates
\* from one below to one above them
PolyVertices == {Twice(v) : v \in Grid(PolyGridMax)}

QueryPoints == {Pt(i, j) : i, j \in (0 - 1)..(2 * PolyGridMax + 1)}

\* no two edges of the open chain v[1] .. v[n] meet, but for consecutive
\* edges at their common vertex
SimpleChain(v) ==
    /\ \A i, k \in 1..Len(v) : i # k => v[i] # v[k]
    /\ \A i, k \in 1..(Len(v) - 1) :
          /\ k > i + 1 => ~SegmentsMeet(v[i], v[i + 1], v[k], v[k + 1])
          /\ k = i + 1 => ~OnClosedSegment(v[i], v[i + 1], v[k + 1])
                          /\ ~OnClosedSegment(v[k], v[k + 1], v[i])

\* the closed polygon v[1] .. v[n] v[1] is simple
SimplePolygon(v) ==
    LET n == Len(v)
        nxt(i) == (i % n) + 1
    IN  /\ n >= 3
        /\ \A i, k \in 1..n : i # k => v[i] # v[k]
        /\ \A i, k \in 1..n :
              /\ (k # i /\ k # nxt(i) /\ i # nxt(k))
                    => ~SegmentsMeet(v[i], v[nxt(i)], v[k], v[nxt(k)])
              /\ k = nxt(i) => ~OnClosedSegment(v[i], v[k], v[nxt(k)])
                               /\ ~OnClosedSegment(v[k], v[nxt(k)], v[i])

\* the caller builds a polygon vertex by vertex
PolyPush ==
    /\ frame = Idle
    /\ ~ret["pip"].called
    /\ Len(poly) < MaxPoly
    /\ \E v \in PolyVertices :
          /\ SimpleChain(Append(poly, v))
          /\ poly' = Append(poly, v)
    /\ UNCHANGED <<points, query, seg, frame, ret>>

\* the caller passes a closed polygon: at least 3 vertices
CallPointInPolygon ==
    /\ frame = Idle
    /\ ~ret["pip"].called
    /\ Len(poly) >= 3
    /\ \E q \in QueryPoints :
          /\ query' = q
          /\ ret' = [ret EXCEPT !["pip"] =
                        Returned([polygon |-> poly, p |-> q], isPointInPolygon(poly, q))]
    /\ UNCHANGED <<points, poly, seg, frame>>

InitPolygon ==
    /\ points = <<>>
    /\ poly = <<>>
    /\ query = Pt(0, 0)
    /\ seg = <<>>
    /\ frame = Idle
    /\ ret = [o \in Ops |-> NotCalled]

NextPolygon ==
    \/ PolyPush
    \/ CallPointInPolygon

SpecPolygon == InitPolygon /\ [][NextPolygon]_vars

OnBoundary(v, q) ==
    \E i \in 1..Len(v) : OnClosedSegment(v[i], v[(i % Len(v)) + 1], q)

\* The segment from q to FarFrom(q) leaves the polygon's bounding box and
\* passes through no point with integer coordinates but its two ends.
FarFrom(q) == Pt(q.x + 2 * PolyGridMax + 3, q.y + 1)

\* edge ab crosses the segment from q to f at a point interior to both
ProperlyCrosses(a, b, q, f) ==
    /\ cross(q, f, a) * cross(q, f, b) < 0
    /\ cross(a, b, q) * cross(a, b, f) < 0

\* q, not on the boundary, is inside the simple polygon v: a segment from q
\* to the outside that avoids every vertex crosses an odd number of edges
InsideByParity(v, q) ==
    Cardinality({i \in 1..Len(v) :
                    ProperlyCrosses(v[i], v[(i % Len(v)) + 1], q, FarFrom(q))}) % 2 = 1

Square4 == <<Pt(0,0), Pt(4,0), Pt(4,4), Pt(0,4)>>

\* C9: for a simple polygon and a query point off its boundary
\* isPointInPolygon returns true exactly when the point is inside; for the
\* square (0,0),(4,0),(4,4),(0,4) it returns true for (2,2), false for (5,5).
C9_InsideIffReturnedTrue ==
    LET r == ret["pip"]
    IN  /\ (r.called /\ SimplePolygon(r.arg.polygon) /\ ~OnBoundary(r.arg.polygon, r.arg.p))
              => r.val = InsideByParity(r.arg.polygon, r.arg.p)
        /\ (r.called /\ r.arg.polygon = Square4 /\ r.arg.p = Pt(2, 2)) => r.val = TRUE
        /\ (r.called /\ r.arg.polygon = Square4 /\ r.arg.p = Pt(5, 5)) => r.val = FALSE

\* a point inside whose horizontal ray passes through the vertex (4,2)
C9_Witness ==
    /\ ret["pip"].called
    /\ ret["pip"].arg = [polygon |-> <<Pt(2,0), Pt(4,2), Pt(2,4), Pt(0,2)>>, p |-> Pt(1, 2)]
    /\ ret["pip"].val = TRUE

\* C10 as stated: for a query point on an edge or at a vertex of the polygon
\* isPointInPolygon returns true.
C10_BoundaryReturnsTrue ==
    (ret["pip"].called /\ OnBoundary(ret["pip"].arg.polygon, ret["pip"].arg.p))
        => ret["pip"].val = TRUE

----------------------------------------------------------------------------
\* C2 as stated: for every P with at least 3 points the hull convexHullGraham
\* returns has its vertices in P, makes a strict left turn at every vertex
\* and has every point of P on or inside it.
C2_GrahamHullOfEveryInput ==
    (ret["graham"].called /\ Len(ret["graham"].arg) >= 3)
        => IsHullOf(ret["graham"].val, ret["graham"].arg)

\* C2 amended: the same for every P with at least 3 points that are not all
\* on one line.
C2_GrahamHullOfNonCollinear ==
    (ret["graham"].called /\ Len(ret["graham"].arg) >= 3 /\ ~AllCollinear(ret["graham"].arg))
        => IsHullOf(ret["graham"].val, ret["graham"].arg)

\* Graham returned a triangle for four distinct points: one was pruned
C2_Witness ==
    /\ ret["graham"].called
    /\ Len(ret["graham"].arg) = 4
    /\ Cardinality(Range(ret["graham"].arg)) = 4
    /\ ~AllCollinear(ret["graham"].arg)
    /\ Len(ret["graham"].val) = 3

----------------------------------------------------------------------------
IsRotation(a, b) ==
    /\ Len(a) = Len(b)
    /\ \/ Len(a) = 0
       \/ \E k \in 0..(Len(a) - 1) :
            \A i \in 1..Len(a) : a[i] = b[((i - 1 + k) % Len(a)) + 1]

\* C1 as stated: called on the same point sequence, convexHullGraham,
\* convexHullJarvis and convexHullChan return the same set of vertices, and
\* the hulls of Jarvis and Chan are rotations of Graham's.
C1_ThreeHullsAgree ==
    LET g == ret["graham"]
        j == ret["jarvis"]
        c == ret["chan"]
    IN  (g.called /\ j.called /\ c.called /\ g.arg = j.arg /\ j.arg = c.arg)
            => /\ Range(j.val) = Range(g.val)
               /\ Range(c.val) = Range(g.val)
               /\ IsRotation(j.val, g.val)
               /\ IsRotation(c.val, g.val)

----------------------------------------------------------------------------
\* C3 as stated: on at least 3 points the march of convexHullJarvis comes
\* back to its start point before any index is appended to the hull a
\* second time.
C3_JarvisAppendsNoIndexTwice ==
    frame.fn = "jarvis"
        => \A i, j \in 1..Len(frame.trail) : i # j => frame.trail[i] # frame.trail[j]


----------------------------------------------------------------------------
(* Degenerate inputs of the two operations that return a distance *)

\* C11: convexPolygonDiameter and closestPair each return 0 when given a
\* sequence of 0 or 1 points.
C11_DegenerateDistancesAreZero ==
    /\ (ret["closest"].called /\ Len(ret["closest"].arg) <= 1)
          => ret["closest"].val = 0
    /\ (ret["diameter"].called /\ Len(ret["diameter"].arg) <= 1)
          => ret["diameter"].val = 0

----------------------------------------------------------------------------
(* The caller's sequence across a call *)

\* C12: no call changes the caller's point sequence: after every step it
\* holds the same points in the same order as before.
C12_CallsLeavePointsUnchanged == [][points' = points]_vars

----------------------------------------------------------------------------
(* convexHullGraham on main's sequence *)

\* the turn at every vertex of h is to the left or straight
NoRightTurns(h) ==
    \A i \in 1..Len(h) : cross(h[i], h[CycSucc(h, i)], h[CycSucc(h, CycSucc(h, i))]) >= 0

\* C13 as stated: on main's sequence convexHullGraham returns the vertex set
\* {(2,0),(4,0),(3,3),(2,4),(0,5),(0,0)}, counter-clockwise from (0,0).
C13_GrahamOnMainSixVertices ==
    (ret["graham"].called /\ ret["graham"].arg = MainPoints)
        => /\ Range(ret["graham"].val)
                = {Pt(2,0), Pt(4,0), Pt(3,3), Pt(2,4), Pt(0,5), Pt(0,0)}
           /\ ret["graham"].val[1] = Pt(0, 0)
           /\ NoRightTurns(ret["graham"].val)

\* C13: on main's sequence convexHullGraham returns the five vertices
\* (0,0),(4,0),(3,3),(2,4),(0,5) in this order: counter-clockwise from the
\* lowest point, without (2,0), which is on the edge from (0,0) to (4,0).
C13_GrahamOnMainFiveVertices ==
    (ret["graham"].called /\ ret["graham"].arg = MainPoints)
        => /\ ret["graham"].val = <<Pt(0,0), Pt(4,0), Pt(3,3), Pt(2,4), Pt(0,5)>>
           /\ StrictLeftTurns(ret["graham"].val)

\* convexHullGraham has returned on main's sequence
C13_Witness ==
    /\ ret["graham"].called
    /\ ret["graham"].arg = MainPoints
    /\ Len(ret["graham"].val) = 5
    /\ points # MainPoints

----------------------------------------------------------------------------
(* convexHullChan after a march that was cut off *)

\* C14: when the march was left because it took more than m steps, the
\* test of line 164 sends the computation back to partitioning with the
\* doubled m, and the function does not return the hull of that march.
C14_CutOffMarchRestarts ==
    [][(frame.fn = "chan" /\ frame.pc = "check" /\ frame.cutOff)
          => /\ ~ret'["chan"].called
             /\ frame'.fn = "chan"
             /\ frame'.pc = "partition"
             /\ frame'.m = frame.m]_vars

----------------------------------------------------------------------------
(* inCircumcircle on the triangles of the working triangulation *)

\* C15: when a point p is about to be inserted, inCircumcircle(t, p) is
\* true for exactly the triangles t of the working triangulation whose
\* circumcircle has p strictly inside, the super-triangle included.
C15_InCircumcircleIffInside ==
    (frame.fn = "delaunay" /\ frame.next <= Len(frame.pts))
        => LET p == frame.pts[frame.next]
               T == frame.triangulation
           IN  \A k \in 1..Len(T) :
                   inCircumcircle(T[k], p) <=> StrictlyInsideCircle(T[k], p)

============================================================================
